---- MODULE Spec2Model ----
(***************************************************************************)
(* Model of the orderflow backtest: the Range POI strategy                 *)
(* (strategies/range_poi.py, strategies/base_strategy.py), the per-bar     *)
(* driver run_strategy (main.py), the indicators it reads                  *)
(* (data/processor.py), the backtest engine (backtest/engine.py), and      *)
(* get_market_data (main.py) with the cache (data/cache.py) and the fetch  *)
(* loops (data/fetcher.py).                                                *)
(*                                                                         *)
(* A pandas DataFrame is a record of columns; a column is a sequence.      *)
(* Python indexes from 0 and TLA+ from 1: At(col, t) is col.iloc[t].       *)
(*                                                                         *)
(* A float is an exact fraction <<n, d>> in lowest terms with d > 0;       *)
(* NaN is <<0, 0>> and +infinity is <<1, 0>>.  Rounding of binary floats   *)
(* is not modelled.                                                        *)
(***************************************************************************)
EXTENDS Integers, Sequences, FiniteSets, TLC

VARIABLES
    df,         \* the DataFrame the running operation works on
    pc,         \* position of the running operation
    results,    \* BacktestEngine.results
    cfg,        \* session windows and date range (config/constants.py), the
                \* strategy's fetcher, the argument bins
    i,          \* run_strategy: the loop index; the number of program runs
    scan,       \* the locals of the running loop: over poi_levels in
                \* generate_signal, over the batches in the fetch functions
    log,        \* generate_signal: the levels tested and the snapshot lookups
                \* made; get_market_data: what each half returned, and from where
    cache       \* the files of the directory CACHE_DIR (data/cache.py)

vars == <<df, pc, results, cfg, i, scan, log, cache>>

----------------------------------------------------------------------------
(* Floats *)

NaN == <<0, 0>>
Inf == <<1, 0>>
Zero == <<0, 1>>
One == <<1, 1>>

Abs(x) == IF x < 0 THEN -x ELSE x

RECURSIVE Gcd(_, _)
Gcd(a, b) == IF b = 0 THEN a ELSE Gcd(b, a % b)

Frac(n, d) ==
    LET g == Gcd(Abs(n), Abs(d))
        s == IF d < 0 THEN -1 ELSE 1
    IN  <<s * (n \div g), s * (d \div g)>>

float(n) == <<n, 1>>

IsNaN(x) == x = NaN

\* x + y, x - y, x * y, x / y of floats: NaN in, NaN out; 0/0 is NaN
FAdd(x, y) ==
    IF IsNaN(x) \/ IsNaN(y) THEN NaN
    ELSE LET g == Gcd(x[2], y[2])
             l == (x[2] \div g) * y[2]
         IN  Frac(x[1] * (l \div x[2]) + y[1] * (l \div y[2]), l)

FNeg(x) == IF IsNaN(x) THEN NaN ELSE <<-x[1], x[2]>>

FSub(x, y) == FAdd(x, FNeg(y))

FMul(x, y) ==
    IF IsNaN(x) \/ IsNaN(y) THEN NaN
    ELSE LET a == Frac(x[1], y[2])
             b == Frac(y[1], x[2])
         IN  Frac(a[1] * b[1], a[2] * b[2])

FDiv(x, y) ==
    IF IsNaN(x) \/ IsNaN(y) THEN NaN
    ELSE IF y[1] = 0 THEN (IF x[1] = 0 THEN NaN ELSE Inf)
    ELSE FMul(x, Frac(y[2], y[1]))

\* comparisons of floats: every ordered comparison with NaN is False,
\* and NaN != y is True
\* a/b < c/d for b, d > 0, by comparing the integer parts and then the
\* reciprocals of the remainders, so that no product is formed
RECURSIVE FracLt(_, _, _, _)
FracLt(a, b, c, d) ==
    LET qa == a \div b
        qc == c \div d
        ra == a % b
        rc == c % d
    IN  IF qa # qc THEN qa < qc
        ELSE IF rc = 0 THEN FALSE
        ELSE IF ra = 0 THEN TRUE
        ELSE FracLt(d, rc, b, ra)

FLt(x, y) == ~IsNaN(x) /\ ~IsNaN(y) /\ FracLt(x[1], x[2], y[1], y[2])
FGt(x, y) == FLt(y, x)
FNe(x, y) == IsNaN(x) \/ IsNaN(y) \/ x # y

At(col, t) == col[t + 1]

----------------------------------------------------------------------------
(* pandas Series operations used by the engine *)

\* Series.shift(1): the first value becomes NaN
shift(col) == [t \in 1..Len(col) |-> IF t = 1 THEN NaN ELSE float(col[t - 1])]

\* Series.pct_change(): NaN at the first row, then close[t]/close[t-1] - 1
pct_change(col) ==
    [t \in 1..Len(col) |->
        IF t = 1 THEN NaN
        ELSE FSub(FDiv(float(col[t]), float(col[t - 1])), One)]

\* Series.cumprod() with skipna: a NaN row stays NaN and is left out of the product
RECURSIVE cumprodUpTo(_, _)
cumprodUpTo(col, t) ==
    IF t = 0 THEN One
    ELSE IF IsNaN(col[t]) THEN cumprodUpTo(col, t - 1)
    ELSE FMul(cumprodUpTo(col, t - 1), col[t])

cumprod(col) ==
    [t \in 1..Len(col) |-> IF IsNaN(col[t]) THEN NaN ELSE cumprodUpTo(col, t)]

\* the non-NaN values of a column, in order
NotNa(col) == SelectSeq(col, LAMBDA x : ~IsNaN(x))

RECURSIVE FSum(_)
FSum(col) == IF col = <<>> THEN Zero ELSE FAdd(Head(col), FSum(Tail(col)))

RECURSIVE FMax(_)
FMax(col) ==
    IF Len(col) = 1 THEN Head(col)
    ELSE LET m == FMax(Tail(col)) IN IF FGt(Head(col), m) THEN Head(col) ELSE m

\* Series.mean() with skipna: NaN when no value is left
mean(col) ==
    LET v == NotNa(col)
    IN  IF v = <<>> THEN NaN ELSE FDiv(FSum(v), float(Len(v)))

\* the square of Series.std() (ddof = 1, skipna): NaN with fewer than two values
variance(col) ==
    LET v == NotNa(col)
        m == mean(col)
        sq == [t \in 1..Len(v) |-> FMul(FSub(v[t], m), FSub(v[t], m))]
    IN  IF Len(v) < 2 THEN NaN ELSE FDiv(FSum(sq), float(Len(v) - 1))

\* Series.max() with skipna: NaN when no value is left
max(col) == LET v == NotNa(col) IN IF v = <<>> THEN NaN ELSE FMax(v)

\* Series.cummax() with skipna
cummax(col) ==
    [t \in 1..Len(col) |->
        IF IsNaN(col[t]) THEN NaN ELSE FMax(NotNa(SubSeq(col, 1, t)))]

----------------------------------------------------------------------------
(* backtest/engine.py *)

\* the rows of trades = df[df['position'] != 0], and of it those with
\* returns > 0 and returns < 0
tradeRows(d) == {t \in 1..Len(d.position) : FNe(d.position[t], Zero)}
winningRows(d) == {t \in tradeRows(d) : FGt(d.returns[t], Zero)}
losingRows(d) == {t \in tradeRows(d) : FLt(d.returns[t], Zero)}

RowsOf(col, rows) == SelectSeq([t \in 1..Len(col) |-> IF t \in rows THEN col[t] ELSE NaN],
                               LAMBDA x : ~IsNaN(x))

\* sharpe = sqrt(252) * mean / std if std != 0 else 0, kept as the pair it is
\* computed from: the value is sqrt(252) * num / sqrt(den2)
sharpe_ratio(d) ==
    IF FNe(variance(d.returns), Zero)
    THEN [num |-> mean(d.returns), den2 |-> variance(d.returns)]
    ELSE [num |-> Zero, den2 |-> One]

\* BacktestEngine._calculate_stats on a non-empty frame
_calculate_stats(d) ==
    LET total_trades == Cardinality(tradeRows(d))
        wins == Cardinality(winningRows(d))
        win_rate == IF total_trades > 0 THEN Frac(wins, total_trades) ELSE Zero
        avg_win == IF wins > 0 THEN mean(RowsOf(d.returns, winningRows(d))) ELSE Zero
        avg_loss == IF Cardinality(losingRows(d)) > 0
                    THEN mean(RowsOf(d.returns, losingRows(d))) ELSE Zero
        profit_factor == IF FNe(avg_loss, Zero) THEN FDiv(FNeg(avg_win), avg_loss) ELSE Inf
        equity == d.equity
        max_dd == max([t \in 1..Len(equity) |-> FSub(cummax(equity)[t], equity[t])])
    IN  [total_trades |-> total_trades,
         win_rate |-> win_rate,
         avg_win |-> avg_win,
         avg_loss |-> avg_loss,
         profit_factor |-> profit_factor,
         max_drawdown |-> max_dd,
         sharpe_ratio |-> sharpe_ratio(d),
         total_return |-> FSub(equity[Len(equity)], One)]

\* the three columns run_backtest adds (engine.py lines 23-25)
position(d) == shift(d.signal)

returns(d) ==
    LET p == position(d)
        c == pct_change(d.close)
    IN  [t \in 1..Len(d.close) |-> FMul(c[t], p[t])]

equity(d) == cumprod([t \in 1..Len(d.close) |-> FAdd(One, returns(d)[t])])

WithBacktestColumns(d) ==
    [close |-> d.close, signal |-> d.signal,
     position |-> position(d), returns |-> returns(d), equity |-> equity(d)]

\* BacktestEngine.run_backtest: on an empty frame the columns are empty, the
\* reducers of _calculate_stats run on them, and df['equity'].iloc[-1] raises
\* IndexError before self.results is assigned
run_backtest ==
    /\ pc = "run_backtest"
    /\ df' = WithBacktestColumns(df)
    /\ IF Len(df.close) = 0
       THEN /\ pc' = "IndexError"
            /\ results' = results
       ELSE /\ pc' = "returned"
            /\ results' = [df |-> df', stats |-> _calculate_stats(df')]
    /\ UNCHANGED <<cfg, i, scan, log, cache>>

----------------------------------------------------------------------------
(* The engine on every frame within the bounds *)

MaxBars == 3
Closes == {50, 100, 101}
Signals == {-1, 0, 1}

SeqsUpTo(S, n) == UNION {[1..k -> S] : k \in 0..n}

None == [none |-> TRUE]

InitBacktest ==
    /\ \E c \in SeqsUpTo(Closes, MaxBars) :
       \E s \in [1..Len(c) -> Signals] :
            df = [close |-> c, signal |-> s]
    /\ pc = "run_backtest"
    /\ results = None
    /\ cfg = None
    /\ i = 0
    /\ scan = None
    /\ log = None
    /\ cache = None

NextBacktest == run_backtest

SpecBacktest == InitBacktest /\ [][NextBacktest]_vars

----------------------------------------------------------------------------
(* The DatetimeIndex: a timestamp is a number of hours since a Monday 00:00 UTC *)

hour(ts) == ts % 24
date(ts) == ts \div 24
dayofweek(ts) == (ts \div 24) % 7

----------------------------------------------------------------------------
(* strategies/base_strategy.py *)

\* a session check that takes the end hour into the window
is_in_session_closed(h) ==
    LET in_asia == cfg.session_ranges.asia[1] <= h /\ h <= cfg.session_ranges.asia[2]
        in_ny == cfg.session_ranges.ny[1] <= h /\ h <= cfg.session_ranges.ny[2]
    IN  in_asia \/ in_ny

\* BaseStrategy.is_in_session
is_in_session(h) ==
    LET in_asia == cfg.session_ranges.asia[1] <= h /\ h < cfg.session_ranges.asia[2]
        in_ny == cfg.session_ranges.ny[1] <= h /\ h < cfg.session_ranges.ny[2]
    IN  in_asia \/ in_ny

----------------------------------------------------------------------------
(* data/processor.py *)

IntMax(S) == LET x == CHOOSE y \in S : \A z \in S : z <= y IN x

IntMin(S) == LET x == CHOOSE y \in S : \A z \in S : y <= z IN x

ColMax(col, rows) == IntMax({col[t] : t \in rows})
ColMin(col, rows) == IntMin({col[t] : t \in rows})

\* a cumsum that runs over the whole frame, without the grouping by day
RowsUpTo(d, t) == 1..t

\* the rows of row t's calendar day up to and including t: what the per-day
\* cumsum of groupby(pd.Grouper(freq='D')) adds up at row t
DayRowsUpTo(d, t) == {r \in 1..t : date(d.index[r]) = date(d.index[t])}

RECURSIVE SumOver(_, _)
SumOver(f, rows) ==
    IF rows = {} THEN Zero
    ELSE LET r == CHOOSE x \in rows : TRUE
         IN  FAdd(f[r], SumOver(f, rows \ {r}))

typical_price(d) == [t \in 1..Len(d.close) |-> Frac(d.high[t] + d.low[t] + d.close[t], 3)]

cumulative_vp(d) ==
    LET tp == typical_price(d)
        vp == [t \in 1..Len(d.close) |-> FMul(tp[t], float(d.volume[t]))]
    IN  [t \in 1..Len(d.close) |-> SumOver(vp, DayRowsUpTo(d, t))]

cumulative_vol(d) ==
    LET v == [t \in 1..Len(d.close) |-> float(d.volume[t])]
    IN  [t \in 1..Len(d.close) |-> SumOver(v, DayRowsUpTo(d, t))]

\* calculate_vwap: the 'vwap' column
calculate_vwap(d) ==
    LET tp == typical_price(d)
        vp == cumulative_vp(d)
        vol == cumulative_vol(d)
    IN  [t \in 1..Len(d.close) |->
            IF FGt(vol[t], Zero) THEN FDiv(vp[t], vol[t]) ELSE tp[t]]

\* calculate_volume_profile: vp_range = linspace(low.min(), high.max(), bins);
\* pd.cut raises ValueError when the edges are not unique, that is when
\* low.min() == high.max(); the values returned are the first and last edge
VolumeProfileRaises(d) ==
    ColMin(d.low, 1..Len(d.low)) = ColMax(d.high, 1..Len(d.high))

calculate_volume_profile(d) ==
    [val |-> float(ColMin(d.low, 1..Len(d.low))),
     vah |-> float(ColMax(d.high, 1..Len(d.high)))]

\* DataFrame.sort_index() of a frame whose timestamps are distinct: row k of
\* the result is the row with k - 1 earlier timestamps
sort_index(d) ==
    LET n == Len(d.index)
        row(k) == CHOOSE r \in 1..n :
                      Cardinality({q \in 1..n : d.index[q] < d.index[r]}) = k - 1
    IN  [f \in DOMAIN d |-> [k \in 1..n |-> d[f][row(k)]]]

\* calculate_vwap, the frame it returns: the sorted frame with the columns
\* typical_price, cumulative_vp, cumulative_vol and vwap
calculate_vwap_frame(d) ==
    LET s == sort_index(d)
    IN  [typical_price |-> typical_price(s),
         cumulative_vp |-> cumulative_vp(s),
         cumulative_vol |-> cumulative_vol(s),
         vwap |-> calculate_vwap(s)] @@ s

\* the default of the parameter bins
DefaultBins == 20

\* np.linspace(start, stop, num) for num >= 0: num evenly spaced edges, the
\* first is start and the last is stop; the single edge of num = 1 is start
linspace(start, stop, num) ==
    [k \in 1..num |->
        IF num = 1 THEN float(start)
        ELSE FAdd(float(start), Frac((k - 1) * (stop - start), num - 1))]

\* pd.cut(x, bins=edges, labels=edges[:-1]) of one value: the buckets are
\* (edges[k], edges[k+1]], so a value at or below the first edge is in none
\* (NaN); the label of a bucket is its left edge
cut(x, edges) ==
    LET below == Cardinality({k \in 1..Len(edges) : FLt(edges[k], float(x))})
    IN  IF below = 0 \/ below = Len(edges) THEN NaN ELSE edges[below]

\* pd.cut raises ValueError: the labels are not one fewer than the edges
\* (no edge at all), or the edges are not unique and there are not two of them
cut_raises(edges) ==
    \/ Len(edges) = 0
    \/ Len(edges) # 2 /\ \E j, k \in 1..Len(edges) : j # k /\ edges[j] = edges[k]

\* df.groupby('vp_bin', observed=False)['volume'].sum(): one entry for every
\* label, 0 for a label without rows
volume_per_bin(d, vp_bin, labels) ==
    [k \in 1..Len(labels) |->
        SumOver([t \in 1..Len(d.volume) |-> float(d.volume[t])],
                {t \in 1..Len(d.volume) : vp_bin[t] = labels[k]})]

\* Series.idxmax(): the label of the first greatest entry; best is the
\* position of the greatest entry before position k
RECURSIVE idxmax_from(_, _, _)
idxmax_from(per_bin, k, best) ==
    IF k > Len(per_bin) THEN best
    ELSE idxmax_from(per_bin, k + 1, IF FGt(per_bin[k], per_bin[best]) THEN k ELSE best)

idxmax(per_bin, labels) == labels[idxmax_from(per_bin, 2, 1)]

\* calculate_volume_profile(df, bins) on a non-empty frame, with its locals.
\* np.linspace raises ValueError for bins < 0; pd.cut raises ValueError as
\* above; with one edge there is no label, volume_per_bin is empty and
\* idxmax() raises ValueError.
volume_profile(d, bins) ==
    LET lo == ColMin(d.low, 1..Len(d.low))
        hi == ColMax(d.high, 1..Len(d.high))
        vp_range == linspace(lo, hi, bins)
        labels == SubSeq(vp_range, 1, Len(vp_range) - 1)
        vp_bin == [t \in 1..Len(d.close) |-> cut(d.close[t], vp_range)]
        per_bin == volume_per_bin(d, vp_bin, labels)
    IN  IF bins < 0 THEN [raises |-> "ValueError", at |-> "np.linspace"]
        ELSE IF cut_raises(vp_range) THEN [raises |-> "ValueError", at |-> "pd.cut"]
        ELSE IF labels = <<>>
             THEN [raises |-> "ValueError", at |-> "idxmax", vp_bin |-> vp_bin]
        ELSE [returns |-> [val |-> vp_range[1], vah |-> vp_range[Len(vp_range)],
                           poc |-> idxmax(per_bin, labels)],
              vp_range |-> vp_range,
              vp_bin |-> vp_bin,
              volume_per_bin |-> per_bin]

----------------------------------------------------------------------------
(* strategies/range_poi.py *)

WarmUp == 20
lookback == 5

\* a POI level is base + sgn * sqrt(var): the VWAP bands are vwap +- std_dev
\* with std_dev = sqrt(variance); every other level has sgn = 0
Level(x) == [base |-> x, sgn |-> 0, var |-> Zero]

\* np.isnan(level)
isnan(level) == IsNaN(level.base) \/ IsNaN(level.var)

\* detect_swing_points: rolling(lookback, center=True) needs the whole window
\* inside the frame (min_periods = lookback), else NaN; the value returned is
\* the one of the last row, iloc[-1]
rolling_center_rows(n, t) ==
    LET lo == t - (lookback \div 2)
        hi == lo + lookback - 1
    IN  IF lo >= 1 /\ hi <= n THEN lo..hi ELSE {}

detect_swing_points(d) ==
    LET n == Len(d.high)
        w == rolling_center_rows(n, n)
    IN  IF w = {} THEN <<NaN, NaN>>
        ELSE <<float(ColMax(d.high, w)), float(ColMin(d.low, w))>>

\* get_monday_levels
get_monday_levels(d) ==
    LET mondays == {t \in 1..Len(d.high) : dayofweek(d.index[t]) = 0}
    IN  IF mondays # {} THEN <<float(ColMax(d.high, mondays)), float(ColMin(d.low, mondays))>>
        ELSE <<NaN, NaN>>

\* calculate_vwap_bands at row t: daily_vwap = cum_tp_vol / cum_vol (NaN while
\* the day's volume is 0) and variance = cum_sq_dev_vol / cum_vol, where the
\* cumsum leaves out the rows whose squared deviation is NaN
calculate_vwap_bands(d, t) ==
    LET tp == typical_price(d)
        cum_vol == cumulative_vol(d)
        cum_tp_vol == cumulative_vp(d)
        vwap == [r \in 1..Len(d.close) |-> FDiv(cum_tp_vol[r], cum_vol[r])]
        sq_vol == [r \in 1..Len(d.close) |->
                     FMul(FMul(FSub(tp[r], vwap[r]), FSub(tp[r], vwap[r])),
                          float(d.volume[r]))]
        rows == {r \in DayRowsUpTo(d, t) : ~IsNaN(sq_vol[r])}
        cum_sq_dev_vol == IF IsNaN(sq_vol[t]) THEN NaN ELSE SumOver(sq_vol, rows)
        variance_t == FDiv(cum_sq_dev_vol, cum_vol[t])
    IN  [vwap_upper |-> [base |-> vwap[t], sgn |-> 1, var |-> variance_t],
         vwap_lower |-> [base |-> vwap[t], sgn |-> -1, var |-> variance_t]]

\* detect_trapped_delta
detect_trapped_delta(d, idx) ==
    IF idx < 2 THEN FALSE
    ELSE LET bull_trap == At(d.close, idx) < At(d.close, idx - 1)
                          /\ At(d.delta, idx) > At(d.delta, idx - 1)
             bear_trap == At(d.close, idx) > At(d.close, idx - 1)
                          /\ At(d.delta, idx) < At(d.delta, idx - 1)
         IN  bull_trap \/ bear_trap

\* poi_levels of generate_signal for index idx, in the order of the list
poi_levels(d, idx) ==
    LET vp == calculate_volume_profile(d)
        swing == detect_swing_points(d)
        monday == get_monday_levels(d)
        bands == calculate_vwap_bands(d, idx + 1)
    IN  << <<"VAH", Level(vp.vah)>>,
           <<"VAL", Level(vp.val)>>,
           <<"Swing High", Level(swing[1])>>,
           <<"Swing Low", Level(swing[2])>>,
           <<"Monday High", Level(monday[1])>>,
           <<"Monday Low", Level(monday[2])>>,
           <<"VWAP Upper", bands.vwap_upper>>,
           <<"VWAP", Level(At(d.vwap, idx))>>,
           <<"VWAP Lower", bands.vwap_lower>> >>

\* threshold = 0.0055 * current_close
threshold(current_close) == FMul(Frac(55, 10000), float(current_close))

\* diff < threshold with diff = abs(current_close - level).  For a band,
\* |e - sgn*s| < th with e = close - base and s = sqrt(var) >= 0 is
\* sgn*e - th < s < sgn*e + th, compared through the squares.
near(current_close, level) ==
    LET th == threshold(current_close)
        e == FSub(float(current_close), level.base)
        se == IF level.sgn = -1 THEN FNeg(e) ELSE e
        lo == FSub(se, th)
        hi == FAdd(se, th)
    IN  IF level.sgn = 0
        THEN FLt(FNeg(th), e) /\ FLt(e, th)
        ELSE /\ (FLt(lo, Zero) \/ FLt(FMul(lo, lo), level.var))
             /\ FLt(Zero, hi) /\ FLt(level.var, FMul(hi, hi))

\* the two tests after a hit (lines 162-172)
buy_signal(d, idx, current_delta, prev_delta) ==
    FGt(current_delta, prev_delta) /\ detect_trapped_delta(d, idx)

sell_signal(d, idx, current_delta, prev_delta) ==
    FLt(current_delta, prev_delta) /\ detect_trapped_delta(d, idx)

\* generate_signal of a strategy without fetcher, as a function of (df, i):
\* the loop over poi_levels from the k-th level on
RECURSIVE poi_loop_from(_, _, _, _)
poi_loop_from(d, idx, levels, k) ==
    IF k > Len(levels) THEN 0
    ELSE IF isnan(levels[k][2]) \/ ~near(At(d.close, idx), levels[k][2])
         THEN poi_loop_from(d, idx, levels, k + 1)
    ELSE IF buy_signal(d, idx, float(At(d.delta, idx)), float(At(d.delta, idx - 1)))
         THEN 1
    ELSE IF sell_signal(d, idx, float(At(d.delta, idx)), float(At(d.delta, idx - 1)))
         THEN -1
    ELSE poi_loop_from(d, idx, levels, k + 1)

generate_signal(d, idx) ==
    IF idx < WarmUp THEN 0 ELSE poi_loop_from(d, idx, poi_levels(d, idx), 1)

\* what fetcher.fetch_order_book_data_at_time can give for a timestamp: None
\* (no rows, or a failed request), an exception, or a dict with a 'delta'
SnapshotDeltas == {-9, 9}
Responses == {[kind |-> "None"], [kind |-> "raise"]}
             \cup {[kind |-> "dict", delta |-> x] : x \in SnapshotDeltas}

NoLog == [checked |-> <<>>, hits |-> <<>>, lookups |-> <<>>, failed |-> <<>>]

current_hour == hour(At(df.index, i))

SetSignal(d, idx, v) == [d EXCEPT !.signal[idx + 1] = v]

\* run_strategy, an iteration whose bar is outside the sessions: nothing is written
run_strategy_skip ==
    /\ pc = "run_strategy"
    /\ i < Len(df.close)
    /\ ~is_in_session(current_hour)
    /\ i' = i + 1
    /\ UNCHANGED <<df, pc, results, cfg, scan, log, cache>>

\* generate_signal returns 0 at once for i < 20
generate_signal_warmup ==
    /\ pc = "run_strategy"
    /\ i < Len(df.close)
    /\ is_in_session(current_hour)
    /\ i < WarmUp
    /\ df' = SetSignal(df, i, 0)
    /\ scan' = [i |-> i, returned |-> 0]
    /\ log' = NoLog
    /\ i' = i + 1
    /\ UNCHANGED <<pc, results, cfg, cache>>

\* generate_signal: calculate_volume_profile raises, and the exception leaves
\* run_strategy
generate_signal_raises ==
    /\ pc = "run_strategy"
    /\ i < Len(df.close)
    /\ is_in_session(current_hour)
    /\ i >= WarmUp
    /\ VolumeProfileRaises(df)
    /\ pc' = "ValueError"
    /\ UNCHANGED <<df, results, cfg, i, scan, log, cache>>

\* generate_signal up to the loop: the POIs and the current price action
generate_signal_pois ==
    /\ pc = "run_strategy"
    /\ i < Len(df.close)
    /\ is_in_session(current_hour)
    /\ i >= WarmUp
    /\ ~VolumeProfileRaises(df)
    /\ scan' = [i |-> i,
                levels |-> poi_levels(df, i),
                k |-> 1,
                current_delta |-> float(At(df.delta, i)),
                prev_delta |-> float(At(df.delta, i - 1))]
    /\ log' = NoLog
    /\ pc' = "poi_loop"
    /\ UNCHANGED <<df, results, cfg, i, cache>>

\* the tests after a hit, with the deltas cd and pd, and the log lg
Decide(cd, pd, lg) ==
    IF buy_signal(df, i, cd, pd)
    THEN /\ df' = SetSignal(df, i, 1)
         /\ scan' = [i |-> i, returned |-> 1, current_delta |-> cd, prev_delta |-> pd]
         /\ log' = lg
         /\ i' = i + 1
         /\ pc' = "run_strategy"
    ELSE IF sell_signal(df, i, cd, pd)
    THEN /\ df' = SetSignal(df, i, -1)
         /\ scan' = [i |-> i, returned |-> -1, current_delta |-> cd, prev_delta |-> pd]
         /\ log' = lg
         /\ i' = i + 1
         /\ pc' = "run_strategy"
    ELSE /\ scan' = [scan EXCEPT !.k = @ + 1, !.current_delta = cd, !.prev_delta = pd]
         /\ log' = lg
         /\ UNCHANGED <<df, i, pc>>

\* one iteration of the loop over poi_levels
poi_loop ==
    /\ pc = "poi_loop"
    /\ scan.k <= Len(scan.levels)
    /\ LET poi_name == scan.levels[scan.k][1]
           level == scan.levels[scan.k][2]
           checked == [log EXCEPT !.checked = Append(@, poi_name)]
           hit == [checked EXCEPT !.hits = Append(@, poi_name)]
           looked == [hit EXCEPT !.lookups = Append(@, poi_name)]
       IN  IF isnan(level)
           THEN /\ scan' = [scan EXCEPT !.k = @ + 1]
                /\ UNCHANGED <<df, i, pc, log>>
           ELSE IF ~near(At(df.close, i), level)
           THEN /\ scan' = [scan EXCEPT !.k = @ + 1]
                /\ log' = checked
                /\ UNCHANGED <<df, i, pc>>
           ELSE IF cfg.fetcher
           THEN \E ob_data \in Responses :
                    IF ob_data.kind = "dict"
                    THEN Decide(float(ob_data.delta), float(At(df.delta, i - 1)), looked)
                    ELSE /\ scan' = [scan EXCEPT !.k = @ + 1]
                         /\ log' = [looked EXCEPT !.failed = Append(@, poi_name)]
                         /\ UNCHANGED <<df, i, pc>>
           ELSE Decide(scan.current_delta, scan.prev_delta, hit)
    /\ UNCHANGED <<results, cfg, cache>>

\* the loop over poi_levels is exhausted: return 0
generate_signal_flat ==
    /\ pc = "poi_loop"
    /\ scan.k > Len(scan.levels)
    /\ df' = SetSignal(df, i, 0)
    /\ scan' = [i |-> i, returned |-> 0,
                current_delta |-> scan.current_delta, prev_delta |-> scan.prev_delta]
    /\ i' = i + 1
    /\ pc' = "run_strategy"
    /\ UNCHANGED <<results, cfg, log, cache>>

\* run_strategy: the loop over range(1, len(df)) is over
run_strategy_return ==
    /\ pc = "run_strategy"
    /\ i >= Len(df.close)
    /\ pc' = "done"
    /\ UNCHANGED <<df, results, cfg, i, scan, log, cache>>

----------------------------------------------------------------------------
(* The frames and configurations run_strategy is checked on *)

MaxExtra == 2

\* the close of the history; its threshold 0.0055 * C0 = 220 is a whole number
C0 == 100 * 400

Bar(ts, c, up, down, v, dl) ==
    [index |-> ts, high |-> c + up, low |-> c - down, close |-> c, volume |-> v, delta |-> dl]

\* the bar at WarmUp: a close below or above the history, a delta below or
\* above it, flat or with a wick; or an unchanged bar without volume
TailBars ==
    {[close |-> c, up |-> w[1], down |-> w[2], volume |-> 1, delta |-> dl] :
        c \in {C0 - 200, C0 + 200}, w \in {<<0, 0>>, <<900, 0>>, <<0, 900>>}, dl \in {-1, 1}}
    \cup {[close |-> C0, up |-> 0, down |-> 0, volume |-> 0, delta |-> 0]}

\* the bars after it
FutureBars ==
    {[close |-> C0, up |-> 0, down |-> 0, volume |-> 0, delta |-> 0],
     [close |-> C0 + 200, up |-> 0, down |-> 0, volume |-> 0, delta |-> -2],
     [close |-> C0 - 200, up |-> 0, down |-> 900, volume |-> 1, delta |-> 2]}

\* the history: WarmUp equal bars around C0, without volume and with delta 0
FillerSpreads == {0, 200}

BarsOf(start, spread, tail) ==
    [t \in 1..(WarmUp + Len(tail)) |->
        IF t <= WarmUp THEN Bar(start + t - 1, C0, spread, spread, 0, 0)
        ELSE LET b == tail[t - WarmUp]
             IN  Bar(start + t - 1, b.close, b.up, b.down, b.volume, b.delta)]

Column(bars, f) == [t \in 1..Len(bars) |-> bars[t][f]]

\* a frame as main hands it to run_strategy: the bars, the 'vwap' column of
\* calculate_technical_indicators, and df['signal'] = 0
Frame(bars) ==
    LET d == [index |-> Column(bars, "index"), high |-> Column(bars, "high"),
              low |-> Column(bars, "low"), close |-> Column(bars, "close"),
              volume |-> Column(bars, "volume"), delta |-> Column(bars, "delta")]
    IN  [index |-> d.index, high |-> d.high, low |-> d.low, close |-> d.close,
         volume |-> d.volume, delta |-> d.delta,
         vwap |-> calculate_vwap(d),
         signal |-> [t \in 1..Len(bars) |-> 0]]

\* hourly bars from a Sunday 04:00, a Monday 00:00 or a Tuesday 17:00, with the
\* sessions 0-8 and 13-21 or a zero-width first session
Scenarios ==
    {[start |-> 148, asia |-> <<0, 8>>, ny |-> <<13, 21>>],
     [start |-> 0, asia |-> <<0, 8>>, ny |-> <<13, 21>>],
     [start |-> 148, asia |-> <<0, 0>>, ny |-> <<13, 21>>],
     [start |-> 41, asia |-> <<0, 8>>, ny |-> <<13, 21>>]}

Tails ==
    {<<b>> : b \in TailBars}
    \cup UNION {{<<b>> \o f : b \in TailBars} : f \in UNION {[1..n -> FutureBars] : n \in 1..(MaxExtra - 1)}}

Init ==
    /\ \E sc \in Scenarios, spread \in FillerSpreads, tail \in Tails, fetcher \in BOOLEAN :
        /\ df = Frame(BarsOf(sc.start, spread, tail))
        /\ cfg = [session_ranges |-> [asia |-> sc.asia, ny |-> sc.ny], fetcher |-> fetcher]
    /\ pc = "run_strategy"
    /\ i = 1
    /\ results = None
    /\ scan = None
    /\ log = NoLog
    /\ cache = None

Next ==
    \/ run_strategy_skip
    \/ generate_signal_warmup
    \/ generate_signal_raises
    \/ generate_signal_pois
    \/ poi_loop
    \/ generate_signal_flat
    \/ run_strategy_return

Spec == Init /\ [][Next]_vars

----------------------------------------------------------------------------
(* The indicators of data/processor.py on every frame within the bounds *)

MaxRows == 3
MaxBins == 3

\* the last hour of a day and the first hour of the next, twice
Stamps == {23, 24, 47, 48}

\* <<high, low, close>>: a flat bar, and a bar with a range that closes at its
\* high or at its low
Prices == {<<10, 10, 10>>, <<12, 9, 12>>, <<12, 9, 9>>}
Volumes == {0, 2}

BinsChoices == (-1..MaxBins) \cup {DefaultBins}

\* the strictly increasing sequences of n stamps
Ascending(n) == {ix \in [1..n -> Stamps] : \A k \in 1..(n - 1) : ix[k] < ix[k + 1]}

Reverse(q) == [k \in 1..Len(q) |-> q[Len(q) + 1 - k]]

\* a non-empty frame with distinct timestamps, in ascending or descending order
InitIndicators ==
    /\ \E n \in 1..MaxRows :
       \E ix \in Ascending(n), pr \in [1..n -> Prices], v \in [1..n -> Volumes],
          descending \in BOOLEAN :
            LET d == [index |-> ix,
                      high |-> [t \in 1..n |-> pr[t][1]],
                      low |-> [t \in 1..n |-> pr[t][2]],
                      close |-> [t \in 1..n |-> pr[t][3]],
                      volume |-> v]
            IN  df = IF descending THEN [f \in DOMAIN d |-> Reverse(d[f])] ELSE d
    /\ pc = "indicators"
    /\ results = None
    /\ cfg = None
    /\ i = 0
    /\ scan = None
    /\ log = None
    /\ cache = None

\* calculate_vwap(df)
calculate_vwap_call ==
    /\ pc = "indicators"
    /\ df' = calculate_vwap_frame(df)
    /\ scan' = [input |-> df]
    /\ pc' = "calculate_vwap returned"
    /\ UNCHANGED <<results, cfg, i, log, cache>>

\* calculate_volume_profile(df, bins): the column vp_bin is written into the
\* caller's frame once pd.cut has returned
calculate_volume_profile_call ==
    /\ pc = "indicators"
    /\ \E bins \in BinsChoices :
        LET r == volume_profile(df, bins)
        IN  /\ cfg' = [bins |-> bins]
            /\ results' = r
            /\ df' = IF "vp_bin" \in DOMAIN r THEN [vp_bin |-> r.vp_bin] @@ df ELSE df
            /\ pc' = IF "raises" \in DOMAIN r THEN r.raises
                      ELSE "calculate_volume_profile returned"
    /\ UNCHANGED <<i, scan, log, cache>>

NextIndicators ==
    \/ calculate_vwap_call
    \/ calculate_volume_profile_call

SpecIndicators == InitIndicators /\ [][NextIndicators]_vars

----------------------------------------------------------------------------
(* data/cache.py *)

\* a parquet file without index metadata read back: the index is the default
\* RangeIndex and 'time' an ordinary column
read_parquet_no_index(file) ==
    [c \in DOMAIN file.table \cup {"index"} |->
        IF c = "index" THEN [k \in 1..Len(file.table["time"]) |-> k - 1]
        ELSE file.table[c]]

\* DataFrame.to_parquet: the index is stored as the table column 'time' and
\* named as the index in the file's pandas metadata
to_parquet(data) ==
    [index_columns |-> <<"time">>,
     table |-> [c \in (DOMAIN data \ {"index"}) \cup {"time"} |->
                   IF c = "time" THEN data.index ELSE data[c]]]

\* pd.read_parquet: the columns the metadata names become the index again
read_parquet(file) ==
    [c \in (DOMAIN file.table \ {file.index_columns[1]}) \cup {"index"} |->
        IF c = "index" THEN file.table[file.index_columns[1]] ELSE file.table[c]]

\* strftime("%Y%m%d") of a datetime: its calendar day, without the time of day
strftime(ts) == date(ts)

get_date_range_str(start_date, end_date) == <<strftime(start_date), strftime(end_date)>>

\* the file name f"{CACHE_DIR}/{data_type}_{start_date}_{end_date}.parquet"
get_cache_filename(data_type, start_date, end_date) == <<data_type, start_date, end_date>>

check_cache(data_type, start_date, end_date) ==
    get_cache_filename(data_type, start_date, end_date) \in DOMAIN cache

\* the directory after save_to_cache(data, ...)
save_to_cache(data, data_type, start_date, end_date) ==
    (get_cache_filename(data_type, start_date, end_date) :> to_parquet(data)) @@ cache

load_from_cache(data_type, start_date, end_date) ==
    read_parquet(cache[get_cache_filename(data_type, start_date, end_date)])

----------------------------------------------------------------------------
(* data/fetcher.py and get_market_data of main.py.  In fetch_order_book_data *)
(* a time is a number of hours, in fetch_order_book_data_at_time a number   *)
(* of minutes; cvd_rows is modelled by its length.                          *)

hours_per_batch == 1
batch_minutes == 5
FlushRows == 10000

\* what one order-book request gives: a list with so many usable entries,
\* JSON that is not a list, or a RequestException
BatchRows == {0, 6000}
BookResponses ==
    {[kind |-> "list", rows |-> n] : n \in BatchRows}
    \cup {[kind |-> "not a list"], [kind |-> "RequestException"]}

\* the frame fetch_ohlcv_data builds from one bar
OhlcvFrame(c) ==
    [index |-> <<0>>, open |-> <<c>>, high |-> <<c>>, low |-> <<c>>, close |-> <<c>>,
     volume |-> <<1>>]

\* what fetch_ohlcv_data gives: a frame, None after a RequestException, or an
\* exception (ValueError for JSON that is not a list, KeyError from
\* set_index('time') when no item is usable)
OhlcvResponses ==
    {[kind |-> "frame", data |-> OhlcvFrame(c)] : c \in {100, 101}}
    \cup {[kind |-> "RequestException"], [kind |-> "raise"]}

\* pd.DataFrame(cvd_rows).set_index('time') of n rows
OrderBookFrame(n) ==
    [index |-> [k \in 1..n |-> k], delta |-> [k \in 1..n |-> 0],
     bid_vol |-> [k \in 1..n |-> 1], ask_vol |-> [k \in 1..n |-> 1]]

\* len(cvd_rows) after a batch of n rows: above FlushRows the rows go to a
\* temporary file and the list is emptied
AfterBatch(rows, n) == IF rows + n > FlushRows THEN 0 ELSE rows + n

start_str == get_date_range_str(cfg.START_DATE, cfg.END_DATE)[1]
end_str == get_date_range_str(cfg.START_DATE, cfg.END_DATE)[2]

\* one completed half of get_market_data, for the claims
Logged(data_type, source, data) ==
    Append(log, [data_type |-> data_type, key |-> <<start_str, end_str>>,
                 source |-> source, data |-> data])

MaxRuns == 2

\* <<START_DATE, END_DATE>>, both midnights: the same day, a day apart, and
\* END_DATE before START_DATE
DateRanges == {<<0, 0>>, <<0, 24>>, <<24, 0>>}

\* the window of fetch_order_book_data_at_time, in minutes (the default is
\* 300 seconds), and the timestamp asked for
Windows == {0, 5, 12}
SnapshotTimes == {60}

EmptyCache == <<>>

\* the cache directory at the start: empty, or with an order-book file of an
\* earlier day range already in it
InitialCaches ==
    {EmptyCache, get_cache_filename("orderbook", 0, 1) :> to_parquet(OrderBookFrame(1))}

InitData ==
    /\ cache \in InitialCaches
    /\ pc = "idle"
    /\ i = 0
    /\ cfg = None
    /\ results = None
    /\ scan = None
    /\ log = <<>>
    /\ df = None

\* main: the program starts with the date range of its environment and calls
\* get_market_data
main ==
    /\ pc = "idle"
    /\ i < MaxRuns
    /\ \E r \in DateRanges : cfg' = [START_DATE |-> r[1], END_DATE |-> r[2]]
    /\ i' = i + 1
    /\ results' = [ohlcv_df |-> None, order_book_df |-> None]
    /\ pc' = "get_market_data"
    /\ UNCHANGED <<df, scan, log, cache>>

\* get_market_data, OHLCV half: the cache has the file
ohlcv_from_cache ==
    /\ pc = "get_market_data"
    /\ check_cache("ohlcv", start_str, end_str)
    /\ LET ohlcv_df == load_from_cache("ohlcv", start_str, end_str)
       IN  /\ results' = [results EXCEPT !.ohlcv_df = ohlcv_df]
           /\ log' = Logged("ohlcv", "cache", ohlcv_df)
    /\ pc' = "order book"
    /\ UNCHANGED <<df, cfg, i, scan, cache>>

\* get_market_data, OHLCV half: fetch_ohlcv_data, and save_to_cache unless it
\* gave None; an exception of fetch_ohlcv_data ends get_market_data
ohlcv_fetch ==
    /\ pc = "get_market_data"
    /\ ~check_cache("ohlcv", start_str, end_str)
    /\ \E response \in OhlcvResponses :
        IF response.kind = "raise"
        THEN /\ pc' = "idle"
             /\ UNCHANGED <<results, log, cache>>
        ELSE LET ohlcv_df == IF response.kind = "frame" THEN response.data ELSE None
             IN  /\ results' = [results EXCEPT !.ohlcv_df = ohlcv_df]
                 /\ cache' = IF ohlcv_df # None
                             THEN save_to_cache(ohlcv_df, "ohlcv", start_str, end_str)
                             ELSE cache
                 /\ log' = Logged("ohlcv", "fetch", ohlcv_df)
                 /\ pc' = "order book"
    /\ UNCHANGED <<df, cfg, i, scan>>

\* get_market_data, order-book half: the cache has the file; return
order_book_from_cache ==
    /\ pc = "order book"
    /\ check_cache("orderbook", start_str, end_str)
    /\ LET order_book_df == load_from_cache("orderbook", start_str, end_str)
       IN  /\ results' = [results EXCEPT !.order_book_df = order_book_df]
           /\ log' = Logged("orderbook", "cache", order_book_df)
    /\ pc' = "idle"
    /\ UNCHANGED <<df, cfg, i, scan, cache>>

\* get_market_data, order-book half: fetch_order_book_data is called
fetch_order_book_data ==
    /\ pc = "order book"
    /\ ~check_cache("orderbook", start_str, end_str)
    /\ scan' = [current_time |-> cfg.START_DATE, cvd_rows |-> 0]
    /\ pc' = "fetch_order_book_data"
    /\ UNCHANGED <<df, results, cfg, i, log, cache>>

\* what get_market_data does with the value of fetch_order_book_data: save it
\* unless it is None, and return
order_book_fetched(order_book_df) ==
    /\ results' = [results EXCEPT !.order_book_df = order_book_df]
    /\ cache' = IF order_book_df # None
                THEN save_to_cache(order_book_df, "orderbook", start_str, end_str)
                ELSE cache
    /\ log' = Logged("orderbook", "fetch", order_book_df)
    /\ pc' = "idle"

\* fetch_order_book_data: one iteration of while current_time <= END_DATE
fetch_order_book_batch ==
    /\ pc = "fetch_order_book_data"
    /\ scan.current_time <= cfg.END_DATE
    /\ LET batch_end == IF scan.current_time + hours_per_batch > cfg.END_DATE
                        THEN cfg.END_DATE
                        ELSE scan.current_time + hours_per_batch
       IN  \E response \in BookResponses :
            IF response.kind = "RequestException"
            THEN /\ order_book_fetched(None)
                 /\ UNCHANGED scan
            ELSE /\ scan' = [current_time |-> batch_end,
                             cvd_rows |-> IF response.kind = "list"
                                          THEN AfterBatch(scan.cvd_rows, response.rows)
                                          ELSE scan.cvd_rows]
                 /\ UNCHANGED <<results, cache, log, pc>>
    /\ UNCHANGED <<df, cfg, i>>

\* fetch_order_book_data: the loop is over; a frame if cvd_rows, else None
fetch_order_book_return ==
    /\ pc = "fetch_order_book_data"
    /\ scan.current_time > cfg.END_DATE
    /\ order_book_fetched(IF scan.cvd_rows > 0 THEN OrderBookFrame(scan.cvd_rows) ELSE None)
    /\ UNCHANGED <<df, cfg, i, scan>>

\* OrderBookFetcher.fetch_order_book_data_at_time(timestamp, window) is called
fetch_order_book_data_at_time ==
    /\ pc = "idle"
    /\ i < MaxRuns
    /\ i' = i + 1
    /\ \E timestamp \in SnapshotTimes, window \in Windows :
        scan' = [timestamp |-> timestamp, window |-> window,
                 current_time |-> timestamp - window, end_time |-> timestamp,
                 cvd_rows |-> 0]
    /\ results' = None
    /\ pc' = "fetch_order_book_data_at_time"
    /\ UNCHANGED <<df, cfg, log, cache>>

\* fetch_order_book_data_at_time: one iteration of while current_time < end_time
at_time_batch ==
    /\ pc = "fetch_order_book_data_at_time"
    /\ scan.current_time < scan.end_time
    /\ LET batch_end == IF scan.current_time + batch_minutes > scan.end_time
                        THEN scan.end_time
                        ELSE scan.current_time + batch_minutes
       IN  \E response \in BookResponses :
            IF response.kind = "RequestException"
            THEN /\ results' = [kind |-> "None"]
                 /\ pc' = "idle"
                 /\ UNCHANGED scan
            ELSE /\ scan' = [scan EXCEPT
                                !.current_time = batch_end,
                                !.cvd_rows = IF response.kind = "list"
                                             THEN AfterBatch(@, response.rows) ELSE @]
                 /\ UNCHANGED <<results, pc>>
    /\ UNCHANGED <<df, cfg, i, log, cache>>

\* fetch_order_book_data_at_time: the loop is over; None without rows or
\* without a row within the window of the timestamp, else the dict of sums
at_time_return ==
    /\ pc = "fetch_order_book_data_at_time"
    /\ scan.current_time >= scan.end_time
    /\ IF scan.cvd_rows = 0
       THEN results' = [kind |-> "None"]
       ELSE \E matched_empty \in BOOLEAN :
                results' = IF matched_empty THEN [kind |-> "None"]
                           ELSE [kind |-> "dict", time |-> scan.timestamp]
    /\ pc' = "idle"
    /\ UNCHANGED <<df, cfg, i, scan, log, cache>>

NextData ==
    \/ main
    \/ ohlcv_from_cache
    \/ ohlcv_fetch
    \/ order_book_from_cache
    \/ fetch_order_book_data
    \/ fetch_order_book_batch
    \/ fetch_order_book_return
    \/ fetch_order_book_data_at_time
    \/ at_time_batch
    \/ at_time_return

SpecData == InitData /\ [][NextData]_vars

\* the program keeps running: a step that can be taken is taken
SpecDataFair == SpecData /\ WF_vars(NextData)

----------------------------------------------------------------------------
(* Claims about the backtest engine, checked under SpecBacktest *)

\* x == y of floats: False when either is NaN
FEq(x, y) == ~IsNaN(x) /\ ~IsNaN(y) /\ x = y

Returned == pc = "returned"
NBars == Len(df.close)
AllFlat == \A t \in 1..NBars : df.signal[t] = 0
SharpeIsNaN(s) == IsNaN(s.num) \/ IsNaN(s.den2)
SharpeIsZero(s) == ~SharpeIsNaN(s) /\ s.num = Zero

\* What the engine does at the first row: shift(1) and pct_change() leave NaN
\* there, the lag and the compounding hold from the second row on, and the
\* NaN position of the first row is counted among the trades.
EngineFirstRow ==
    Returned =>
        /\ IsNaN(At(df.position, 0)) /\ IsNaN(At(df.returns, 0)) /\ IsNaN(At(df.equity, 0))
        /\ \A t \in 1..(NBars - 1) :
              /\ At(df.position, t) = float(At(df.signal, t - 1))
              /\ At(df.equity, t) =
                    FMul(IF t = 1 THEN One ELSE At(df.equity, t - 1),
                         FAdd(One, At(df.returns, t)))
        /\ results.stats.total_trades >= 1
        /\ AllFlat => results.stats.total_trades = 1

\* C1: after run_backtest on a non-empty frame, position[t] = signal[t-1] for
\* every t > 0 and position[0] = 0, a defined value.
C1_PositionLag ==
    Returned =>
        /\ \A t \in 1..(NBars - 1) : FEq(At(df.position, t), float(At(df.signal, t - 1)))
        /\ FEq(At(df.position, 0), Zero)

\* C2: when every signal is FLAT, run_backtest returns and reports
\* total_trades = 0, win_rate = 0 and profit_factor = +infinity.
C2_FlatNoTrades ==
    (AllFlat /\ NBars > 0 /\ pc # "run_backtest") =>
        /\ Returned
        /\ results.stats.total_trades = 0
        /\ results.stats.win_rate = Zero
        /\ results.stats.profit_factor = Inf

\* C8: after run_backtest, equity[t] = equity[t-1] * (1 + bar_return[t]) for
\* every bar t, the value before the first bar being 1.0, so that
\* equity[0] = 1.0 when position[0] is zero; and a signal +1 followed by a
\* close 1% higher gives position 1, return 0.01 and equity 1.01.
C8_EquityRecurrence ==
    Returned =>
        /\ \A t \in 0..(NBars - 1) :
              FEq(At(df.equity, t),
                  FMul(IF t = 0 THEN One ELSE At(df.equity, t - 1),
                       FAdd(One, At(df.returns, t))))
        /\ (NBars >= 2 /\ df.signal[1] = 1 /\ df.close[1] = 100 /\ df.close[2] = 101) =>
              /\ At(df.position, 1) = One
              /\ At(df.returns, 1) = Frac(1, 100)
              /\ At(df.equity, 1) = Frac(101, 100)

\* C9: for every non-empty frame every field of the statistics record is a
\* defined value (never NaN) and run_backtest raises nothing; sharpe_ratio is
\* 0 whenever the standard deviation of the returns is zero or undefined.
C9_StatsDefined ==
    (NBars > 0 /\ pc # "run_backtest") =>
        /\ Returned
        /\ \A f \in {"win_rate", "avg_win", "avg_loss", "profit_factor",
                     "max_drawdown", "total_return"} : ~IsNaN(results.stats[f])
        /\ ~SharpeIsNaN(results.stats.sharpe_ratio)
        /\ (variance(df.returns) \in {Zero, NaN}) => SharpeIsZero(results.stats.sharpe_ratio)

\* C10: an empty frame is rejected upfront with a "no data" outcome: the
\* reducers never run on it and nothing is raised.
C10_EmptyRejected ==
    (NBars = 0 /\ pc # "run_backtest") => pc = "no data"

\* x >= y of floats: False when either is NaN
FGe(x, y) == ~IsNaN(x) /\ ~IsNaN(y) /\ ~FracLt(x[1], x[2], y[1], y[2])

\* What the engine reports as max_drawdown: the greatest cummax - equity over
\* the rows whose equity is defined, which is >= 0 from two bars on and NaN
\* for a single bar, whose only equity value is NaN.
DrawdownFromSecondBar ==
    Returned =>
        IF NBars >= 2 THEN FGe(results.stats.max_drawdown, Zero)
        ELSE IsNaN(results.stats.max_drawdown)

\* C11: for every non-empty frame and every signal column run_backtest
\* returns and the max_drawdown it reports, max(cummax(equity) - equity),
\* is >= 0.
C11_DrawdownNonNegative ==
    (NBars > 0 /\ pc # "run_backtest") =>
        /\ Returned
        /\ results.stats.max_drawdown =
              max([t \in 1..NBars |-> FSub(cummax(df.equity)[t], df.equity[t])])
        /\ FGe(results.stats.max_drawdown, Zero)

----------------------------------------------------------------------------
(* Claims about the indicators, checked under SpecIndicators *)

\* row t (from 1) is the first bar of its UTC day in the frame calculate_vwap returned
FirstOfDay(t) == \A r \in 1..(t - 1) : date(df.index[r]) # date(df.index[t])

\* C12: in the frame calculate_vwap returns, at the first bar of every UTC
\* day the accumulators hold that bar alone (cumulative_vol is its volume,
\* cumulative_vp its typical_price * volume) and vwap is its own
\* typical_price, with positive and with zero volume, whatever the bars of
\* earlier days are.
C12_VwapDayReset ==
    pc = "calculate_vwap returned" =>
        \A t \in 1..Len(df.index) :
            FirstOfDay(t) =>
                LET own == Frac(df.high[t] + df.low[t] + df.close[t], 3)
                IN  /\ df.cumulative_vol[t] = float(df.volume[t])
                    /\ df.cumulative_vp[t] = FMul(own, float(df.volume[t]))
                    /\ df.vwap[t] = own

\* C12, witness: calculate_vwap has returned a frame in which a day starts
\* after a bar of an earlier day that had volume and another typical price,
\* given out of order
C12_Witness ==
    /\ pc = "calculate_vwap returned"
    /\ scan.input.index # df.index
    /\ \E t \in 2..Len(df.index) :
          /\ FirstOfDay(t)
          /\ df.volume[t] > 0
          /\ \E r \in 1..(t - 1) :
                df.volume[r] > 0 /\ df.typical_price[r] # df.typical_price[t]

\* calculate_volume_profile has been called with cfg.bins
ProfileCalled == pc \in {"calculate_volume_profile returned", "ValueError"}

PriceLow == ColMin(df.low, 1..Len(df.low))
PriceHigh == ColMax(df.high, 1..Len(df.high))

\* What calculate_volume_profile does: it raises ValueError for bins <= 1
\* and, unless bins = 2, for a frame whose prices are all equal; otherwise it
\* returns min(low) and max(high) with bins - 1 buckets between the bins
\* edges, a close equal to min(low) lies in no bucket, and the point of
\* control is the left edge of the first bucket of greatest volume.  With the
\* default bins it is what generate_signal reads.
VolumeProfileBehaviour ==
    ProfileCalled =>
        /\ "raises" \in DOMAIN results <=>
              (cfg.bins <= 1 \/ (PriceLow = PriceHigh /\ cfg.bins # 2))
        /\ "returns" \in DOMAIN results =>
              /\ results.returns.val = float(PriceLow)
              /\ results.returns.vah = float(PriceHigh)
              /\ Len(results.vp_range) = cfg.bins
              /\ Len(results.volume_per_bin) = cfg.bins - 1
              /\ \A t \in 1..Len(df.close) :
                    df.close[t] = PriceLow => IsNaN(results.vp_bin[t])
              /\ \E k \in 1..(cfg.bins - 1) :
                    /\ results.returns.poc = results.vp_range[k]
                    /\ \A j \in 1..(cfg.bins - 1) :
                          ~FGt(results.volume_per_bin[j], results.volume_per_bin[k])
        /\ cfg.bins = DefaultBins =>
              /\ VolumeProfileRaises(df) <=> "raises" \in DOMAIN results
              /\ "returns" \in DOMAIN results =>
                    /\ calculate_volume_profile(df).val = results.returns.val
                    /\ calculate_volume_profile(df).vah = results.returns.vah

\* C15: calculate_volume_profile does not raise for bins <= 1 nor for a frame
\* whose prices are all equal, and then returns the bounds min(low) and
\* max(high) of the single bucket; for bins >= 2 it returns with exactly bins
\* buckets of equal width that cover [min(low), max(high)], every close in
\* one of them, and the point of control is a bucket of greatest summed volume.
C15_VolumeProfileTotal ==
    ProfileCalled =>
        /\ "returns" \in DOMAIN results
        /\ results.returns.val = float(PriceLow)
        /\ results.returns.vah = float(PriceHigh)
        /\ (cfg.bins >= 2 /\ PriceLow < PriceHigh) =>
              /\ Len(results.volume_per_bin) = cfg.bins
              /\ \A k \in 1..(Len(results.vp_range) - 1) :
                    FSub(results.vp_range[k + 1], results.vp_range[k])
                        = Frac(PriceHigh - PriceLow, cfg.bins)
              /\ \A t \in 1..Len(df.close) : ~IsNaN(results.vp_bin[t])
              /\ \E k \in 1..Len(results.volume_per_bin) :
                    /\ results.returns.poc = results.vp_range[k]
                    /\ \A j \in 1..Len(results.volume_per_bin) :
                          ~FGt(results.volume_per_bin[j], results.volume_per_bin[k])

----------------------------------------------------------------------------
(* Claims about the cache and the fetcher, checked under SpecData and *)
(* SpecDataFair                                                        *)

\* the entries a < b of the log are about the same data_type and date range
SameKey(a, b) ==
    a < b /\ log[a].data_type = log[b].data_type /\ log[a].key = log[b].key

\* b is the first entry after a about the same data_type and date range
NextSameKey(a, b) ==
    SameKey(a, b) /\ \A m \in (a + 1)..(b - 1) : ~SameKey(a, m)

\* C13: after a call of get_market_data that missed the cache and fetched a
\* frame, every later call with the same (data_type, start_date, end_date)
\* loads from the cache without fetching and gets the same frame; and after a
\* fetch that gave None nothing is in the cache: the next call fetches again.
C13_CacheEquivalence ==
    \A a, b \in 1..Len(log) :
        /\ (SameKey(a, b) /\ log[a].source = "fetch" /\ log[a].data # None) =>
              (log[b].source = "cache" /\ log[b].data = log[a].data)
        /\ (NextSameKey(a, b) /\ log[a].source = "fetch" /\ log[a].data = None) =>
              log[b].source = "fetch"

\* C13, witness: a fetched OHLCV frame has been loaded from the cache by a
\* later call with the same date range
C13_Witness ==
    \E a, b \in 1..Len(log) :
        /\ SameKey(a, b)
        /\ log[a].data_type = "ohlcv"
        /\ log[a].source = "fetch" /\ log[a].data # None
        /\ log[b].source = "cache"

\* What the batching loop of fetch_order_book_data does when START_DATE <=
\* END_DATE: batch_end is capped at END_DATE, so current_time never passes
\* END_DATE and the test current_time <= END_DATE never fails.
FetchNeverPastEnd ==
    (pc = "fetch_order_book_data" /\ cfg.START_DATE <= cfg.END_DATE) =>
        scan.current_time <= cfg.END_DATE

\* The batching loop of fetch_order_book_data_at_time always exits.
AtTimeTerminates ==
    (pc = "fetch_order_book_data_at_time") ~> (pc = "idle")

\* C16: with START_DATE <= END_DATE, fetch_order_book_data once called
\* eventually returns (a frame or None), also when every request succeeds.
C16_FetchTerminates ==
    (pc = "fetch_order_book_data" /\ cfg.START_DATE <= cfg.END_DATE)
        ~> (pc # "fetch_order_book_data")

----------------------------------------------------------------------------
(* Claims about the strategy, checked under Spec *)

\* generate_signal has returned for bar scan.i, past the warm-up
SignalReturned == "returned" \in DOMAIN scan /\ scan.i >= WarmUp

\* the hour lies in one of the configured half-open windows [start, end)
InSomeWindow(h) ==
    \E w \in {cfg.session_ranges.asia, cfg.session_ranges.ny} : w[1] <= h /\ h < w[2]

\* what generate_signal(d, idx) gives without fetcher: the signal, or the
\* ValueError of calculate_volume_profile
Outcome(d, idx) ==
    IF VolumeProfileRaises(d) THEN [raises |-> "ValueError"]
    ELSE [returns |-> generate_signal(d, idx)]

\* the first n rows of a frame
Prefix(d, n) == [f \in DOMAIN d |-> SubSeq(d[f], 1, n)]

\* the frames that agree with d on the bars 0..idx: d without the later bars,
\* and d with one other bar after idx
Agreeing(d, idx) ==
    LET p == Prefix(d, idx + 1)
        rows == [t \in 1..(idx + 1) |->
                    [index |-> p.index[t], high |-> p.high[t], low |-> p.low[t],
                     close |-> p.close[t], volume |-> p.volume[t], delta |-> p.delta[t]]]
    IN  {p} \cup {Frame(Append(rows, Bar(p.index[idx + 1] + 1, b.close, b.up, b.down,
                                         b.volume, b.delta))) : b \in FutureBars}

\* C3: once the first level within threshold is found, the signal of the bar
\* is decided from it alone and the scan stops: no later level is
\* proximity-tested, none triggers a snapshot lookup, none changes the signal.
C3_FirstMatchWins ==
    /\ Len(log.hits) <= 1
    /\ Len(log.lookups) <= 1
    /\ log.hits # <<>> => log.checked[Len(log.checked)] = log.hits[1]

\* C4: generate_signal returns LONG only if the current delta is above the
\* previous one and bullish absorption holds (close[i] < close[i-1] and
\* delta[i] > delta[i-1]), and SHORT only if it is below and bearish
\* absorption holds (close[i] > close[i-1] and delta[i] < delta[i-1]), with
\* the bar's own delta and with a snapshot delta alike.
C4_SignalNeedsAbsorption ==
    SignalReturned =>
        /\ scan.returned = 1 =>
              /\ FGt(scan.current_delta, scan.prev_delta)
              /\ At(df.close, scan.i) < At(df.close, scan.i - 1)
              /\ At(df.delta, scan.i) > At(df.delta, scan.i - 1)
        /\ scan.returned = -1 =>
              /\ FLt(scan.current_delta, scan.prev_delta)
              /\ At(df.close, scan.i) > At(df.close, scan.i - 1)
              /\ At(df.delta, scan.i) < At(df.delta, scan.i - 1)

\* C14: the Swing High and Swing Low that generate_signal puts into
\* poi_levels are defined: they are the max of high and the min of low over
\* the last five bars of the frame, the last centred window that is complete,
\* and the scan tests them for proximity like every other level.
C14_SwingLevelsDefined ==
    pc = "poi_loop" =>
        LET n == Len(df.high)
            w == (n - lookback + 1)..n
        IN  /\ scan.levels[3] = <<"Swing High", Level(float(ColMax(df.high, w)))>>
            /\ scan.levels[4] = <<"Swing Low", Level(float(ColMin(df.low, w)))>>
            /\ scan.k > 4 =>
                  \E a, b \in 1..Len(log.checked) :
                      log.checked[a] = "Swing High" /\ log.checked[b] = "Swing Low"

\* What generate_signal gets from detect_swing_points: the rolling window of
\* the last row is never complete, so both levels are NaN and the scan skips
\* them.
SwingLevelsNaN ==
    pc = "poi_loop" =>
        /\ isnan(scan.levels[3][2]) /\ isnan(scan.levels[4][2])
        /\ \A a \in 1..Len(log.checked) : log.checked[a] \notin {"Swing High", "Swing Low"}

\* C5: after run_strategy every bar whose hour lies in no session window
\* [start_hour, end_hour), or whose index is below 20, has signal FLAT, and
\* every signal is -1, 0 or +1.
C5_FlatOutsideSessions ==
    pc = "done" =>
        \A t \in 0..(Len(df.signal) - 1) :
            /\ At(df.signal, t) \in {-1, 0, 1}
            /\ (~InSomeWindow(hour(At(df.index, t))) \/ t < 20) => At(df.signal, t) = 0

\* C5, witness: run_strategy has ended with a signal on a bar inside a session
\* and FLAT on a bar past the warm-up that lies outside every window and
\* would have signalled
C5_Witness ==
    /\ pc = "done"
    /\ \E t \in WarmUp..(Len(df.signal) - 1) :
          InSomeWindow(hour(At(df.index, t))) /\ At(df.signal, t) # 0
    /\ \E t \in WarmUp..(Len(df.signal) - 1) :
          /\ ~InSomeWindow(hour(At(df.index, t)))
          /\ generate_signal(df, t) # 0
          /\ At(df.signal, t) = 0

\* C6: with a fetcher whose lookups all return nothing or fail, generate_signal
\* decides the signal from the bar's bulk delta: the result is the one
\* produced without fetcher.
C6_LookupFailureFallsBack ==
    (SignalReturned /\ cfg.fetcher /\ log.lookups # <<>> /\ log.failed = log.lookups) =>
        scan.returned = generate_signal(df, scan.i)

\* C7: the signal of bar i depends only on the bars 0..i: without fetcher,
\* every frame that agrees with df on the bars 0..i gives the same signal for
\* i and the same POI levels.
C7_NoLookAhead ==
    (pc = "done" /\ ~cfg.fetcher) =>
        \A t \in WarmUp..(Len(df.signal) - 1) :
            InSomeWindow(hour(At(df.index, t))) =>
                \A alt \in Agreeing(df, t) :
                    /\ Outcome(alt, t) = [returns |-> At(df.signal, t)]
                    /\ poi_levels(alt, t) = poi_levels(df, t)

====
